---- MODULE Spec2Model ----
(***************************************************************************)
(* Model of receiptbot's user-defined-character subsystem:                 *)
(*   characters/cache.py                      SLRUCache                    *)
(*   characters/unicode_character_printing.py UnicodeCharacterPrinting     *)
(*   characters/unifont.py                    unifont_to_fontb             *)
(*   extensions/print.py                      Print                        *)
(* An OrderedDict is a sequence of [k, v] records, least recently used     *)
(* entry first, most recently used entry last.                             *)
(***************************************************************************)
EXTENDS Integers, Sequences, FiniteSets, TLC

\* ----------------------------------------------------------------- bounds
\* Largest size of the device code range (the printer has 95 codes; the
\* model scales the range down so that both segments fill up).
MaxCodes == 3
\* Longest text handed to text().
MaxLen == 3
\* Largest number of writes on which the printer raises.
MaxFaults == 1
\* Longest access trace driven through a cache.
MaxTrace == 6
\* Longest bitmap handed to unifont_to_fontb.
MaxSrcLen == 33
\* Capacity of the job queue (the cog's queue holds 10 jobs; the model
\* scales it down so that it fills up).
MaxQueue == 2
\* Largest number of cut commands suspended at the same time.
MaxCuts == 2

\* -------------------------------------------------------------- constants
char_first == 32

\* Characters of the input alphabet: a single-width glyph, a double-width
\* glyph, a character the font does not have, a control character (line
\* feed).
Chars == {"a", "W", "z", "\n"}

ControlChars == {"\n"}

ord(char) == IF char = "\n" THEN 10 ELSE 0

category(char) == IF char \in ControlChars THEN "Cc" ELSE "L"

\* f'_{char}': the key of the second cell of a double-width character.
second_key(char) == "_" \o char

\* Keys the cache is looked up with.
Keys == (Chars \ ControlChars) \cup {second_key("W")}

\* A glyph block as stored in the font: whose glyph, which cell, byte length.
Block(of, half, len) == [of |-> of, half |-> half, len |-> len]

NoBlock == Block("", 0, 0)

\* load_unifont(): character -> list of blocks.  A 16x16 glyph gives two
\* blocks, the first one carrying the three bytes of padding.
font ==
  [c \in {"a", "W", "?"} |->
     IF c = "W" THEN <<Block("W", 1, 27), Block("W", 2, 24)>>
     ELSE <<Block(c, 1, 24)>>]

\* self.font.get(char), defaulting to the question mark.
font_get(char) == IF char \in DOMAIN font THEN font[char] ELSE font["?"]

VARIABLES
  pc,                 \* "new", "config_error", "idle", "text", "done", "error"
  char_last,          \* last code of the device code range
  total_capacity, prob_capacity, prot_capacity,
  probationary, protected,          \* the two segments
  ret,                \* result of the last direct cache operation
  fresh_probationary, fresh_protected, fresh_ret, fresh_active, dirty,
                      \* a second cache, constructed when the first is cleared
  txt,                \* text(): the characters of its argument read so far
  codes,              \* text(): pending buffer
  meant,              \* text(): for each pending code, the block it stands for
  sink,               \* calls of _raw made by the current text() call
  device,             \* device slot table: code -> block last defined
  error,              \* exception the last call raised, "none" if none
  faults,             \* number of writes on which the printer has raised
  trace,              \* keys looked up since construction, in order
  results,            \* what each lookup of trace returned: [value, hit]
  src,                \* unifont_to_fontb: its argument, a sequence of bytes
  out,                \* unifont_to_fontb: what the call gave
  queue,              \* Print.queue: the jobs waiting, "print" or "cut"
  printer_online_event,   \* Print.printer_online_event is set
  receipt_ongoing,    \* Print.receipt_ongoing
  worker,             \* print_queue_worker: where the coroutine is
  status_task,        \* task_printer_status: where the coroutine is
  job,                \* the thread of asyncio.to_thread(job)
  clearing,           \* the coroutine between event.clear() and cache clear()
  cuts_deferred,      \* cut commands awaiting interaction.response.defer
  threads,            \* job threads started and not yet finished
  swept               \* a clear() after a detected outage removed entries

cacheVars == <<probationary, protected>>
configVars == <<char_last, total_capacity, prob_capacity, prot_capacity>>
twinVars == <<fresh_probationary, fresh_protected, fresh_ret, fresh_active, dirty>>
driverVars == <<txt, codes, meant, sink, device>>
traceVars == <<trace, results>>
fontVars == <<src, out>>
cogVars == <<queue, printer_online_event, receipt_ongoing, worker, status_task,
             job, clearing, cuts_deferred, threads, swept>>
otherVars == <<traceVars, fontVars, cogVars>>
vars == <<pc, configVars, cacheVars, ret, twinVars, driverVars, error, faults,
          otherVars>>

\* ---------------------------------------------------------- OrderedDict
od_keys(od) == {od[i].k : i \in 1..Len(od)}

od_values(od) == {od[i].v : i \in 1..Len(od)}

od_contains(od, key) == key \in od_keys(od)

od_get(od, key) == od[CHOOSE i \in 1..Len(od) : od[i].k = key].v

\* od.pop(key): the dictionary without the key
od_pop(od, key) == SelectSeq(od, LAMBDA e : e.k # key)

od_move_to_end_stay(od, key) == od

od_move_to_end(od, key) ==
  Append(od_pop(od, key), [k |-> key, v |-> od_get(od, key)])

\* od[key] = value: in place for a key the dictionary has, else at the end
od_setitem(od, key, value) ==
  IF od_contains(od, key)
  THEN [i \in 1..Len(od) |->
          IF od[i].k = key THEN [k |-> key, v |-> value] ELSE od[i]]
  ELSE Append(od, [k |-> key, v |-> value])

\* od.popitem(last=False) on a non-empty dictionary
od_popitem_first(od) == [item |-> Head(od), rest |-> Tail(od)]

od_mru(od) == od[Len(od)].k

\* ------------------------------------------------------------ SLRUCache
Cache(prob, prot) == [probationary |-> prob, protected |-> prot]

NoRet ==
  [op |-> "none", key |-> "", value |-> 0, hit |-> FALSE, err |-> "none",
   allocated |-> FALSE, evicted |-> "", demoted |-> ""]

\* __init__: the checks on the capacities
init_error(total, prob) ==
  IF total <= 0 THEN "ValueError"
  ELSE IF prob >= total THEN "ValueError"
  ELSE "none"

\* __init__: the two empty segments
init_segments == Cache(<<>>, <<>>)

ValidConfig == 0 < prob_capacity /\ prob_capacity < total_capacity

used_codes(c) == od_values(c.probationary) \cup od_values(c.protected)

next_ascii_code_first(c) == [value |-> char_first, err |-> "none"]

\* UnicodeCharacterPrinting._next_ascii_code
next_ascii_code(c) ==
  LET free == {code \in char_first..char_last : code \notin used_codes(c)}
  IN IF free # {}
     THEN [value |-> CHOOSE code \in free : \A o \in free : code <= o,
           err |-> "none"]
     ELSE [value |-> 0, err |-> "RuntimeError"]

promote_no_demote(c, key, value) ==
  [c |-> Cache(c.probationary, od_setitem(c.protected, key, value)),
   demoted |-> ""]

promote_reassign(c, key, value) ==
  IF Len(c.protected) >= prot_capacity
  THEN LET p == od_popitem_first(c.protected)
       IN [c |-> Cache(od_setitem(c.probationary, p.item.k, value),
                       od_setitem(p.rest, key, value)),
           demoted |-> p.item.k]
  ELSE [c |-> Cache(c.probationary, od_setitem(c.protected, key, value)),
        demoted |-> ""]

\* SLRUCache._promote; prot_capacity is positive in every constructed cache,
\* so the protected segment is not empty where it is full.
promote(c, key, value) ==
  IF Len(c.protected) >= prot_capacity
  THEN LET p == od_popitem_first(c.protected)
       IN [c |-> Cache(od_setitem(c.probationary, p.item.k, p.item.v),
                       od_setitem(p.rest, key, value)),
           demoted |-> p.item.k]
  ELSE [c |-> Cache(c.probationary, od_setitem(c.protected, key, value)),
        demoted |-> ""]

insert_missed_evict_mru(c, key) ==
  IF Len(c.probationary) >= prob_capacity
  THEN IF c.probationary = <<>>
       THEN [c |-> c, value |-> 0, err |-> "KeyError",
             allocated |-> FALSE, evicted |-> ""]
       ELSE LET last == c.probationary[Len(c.probationary)]
                rest == SubSeq(c.probationary, 1, Len(c.probationary) - 1)
            IN [c |-> Cache(od_setitem(rest, key, last.v), c.protected),
                value |-> last.v, err |-> "none",
                allocated |-> FALSE, evicted |-> last.k]
  ELSE LET f == next_ascii_code(c)
       IN IF f.err # "none"
          THEN [c |-> c, value |-> 0, err |-> f.err,
                allocated |-> TRUE, evicted |-> ""]
          ELSE [c |-> Cache(od_setitem(c.probationary, key, f.value),
                            c.protected),
                value |-> f.value, err |-> "none",
                allocated |-> TRUE, evicted |-> ""]

\* SLRUCache._insert_missed; popitem on an empty dictionary raises KeyError
insert_missed(c, key) ==
  IF Len(c.probationary) >= prob_capacity
  THEN IF c.probationary = <<>>
       THEN [c |-> c, value |-> 0, err |-> "KeyError",
             allocated |-> FALSE, evicted |-> ""]
       ELSE LET p == od_popitem_first(c.probationary)
            IN [c |-> Cache(od_setitem(p.rest, key, p.item.v), c.protected),
                value |-> p.item.v, err |-> "none",
                allocated |-> FALSE, evicted |-> p.item.k]
  ELSE LET f == next_ascii_code(c)
       IN IF f.err # "none"
          THEN [c |-> c, value |-> 0, err |-> f.err,
                allocated |-> TRUE, evicted |-> ""]
          ELSE [c |-> Cache(od_setitem(c.probationary, key, f.value),
                            c.protected),
                value |-> f.value, err |-> "none",
                allocated |-> TRUE, evicted |-> ""]

\* SLRUCache.__getitem__
getitem(c, key) ==
  IF od_contains(c.protected, key)
  THEN [c |-> Cache(c.probationary, od_move_to_end(c.protected, key)),
        value |-> od_get(c.protected, key), hit |-> TRUE, err |-> "none",
        allocated |-> FALSE, evicted |-> "", demoted |-> ""]
  ELSE IF od_contains(c.probationary, key)
  THEN LET value == od_get(c.probationary, key)
           p == promote(Cache(od_pop(c.probationary, key), c.protected),
                        key, value)
       IN [c |-> p.c, value |-> value, hit |-> TRUE, err |-> "none",
           allocated |-> FALSE, evicted |-> "", demoted |-> p.demoted]
  ELSE LET m == insert_missed(c, key)
       IN [c |-> m.c, value |-> m.value, hit |-> FALSE, err |-> m.err,
           allocated |-> m.allocated, evicted |-> m.evicted, demoted |-> ""]

clear_probationary_only(c) == Cache(<<>>, c.protected)

\* SLRUCache.clear
clear(c) == Cache(<<>>, <<>>)

\* The result record of a lookup, as kept in ret.
RetOf(r, key) ==
  [op |-> "lookup", key |-> key, value |-> r.value, hit |-> r.hit,
   err |-> r.err, allocated |-> r.allocated, evicted |-> r.evicted,
   demoted |-> r.demoted]

self == Cache(probationary, protected)

fresh == Cache(fresh_probationary, fresh_protected)

\* ------------------------------------------------------------------ Init
InitBase ==
  /\ pc = "new"
  /\ char_last = char_first - 1
  /\ total_capacity = 0 /\ prob_capacity = 0 /\ prot_capacity = 0
  /\ probationary = <<>> /\ protected = <<>>
  /\ ret = NoRet
  /\ fresh_probationary = <<>> /\ fresh_protected = <<>>
  /\ fresh_ret = NoRet /\ fresh_active = FALSE /\ dirty = FALSE
  /\ txt = <<>> /\ codes = <<>> /\ meant = <<>> /\ sink = <<>>
  /\ device = [code \in char_first..(char_first + MaxCodes - 1) |-> NoBlock]
  /\ error = "none"
  /\ faults = 0

InitTrace == trace = <<>> /\ results = <<>>

\* No call of unifont_to_fontb is under way.
NoOut == [err |-> "unused", blocks |-> <<>>]

InitFontUnused == src = <<>> /\ out = NoOut

\* No job is held by the worker or run by a thread.
NoJob == [kind |-> "none", at |-> "none"]

\* No Print cog: no queue, no tasks.
InitCogUnused ==
  /\ queue = <<>> /\ printer_online_event = FALSE /\ receipt_ongoing = FALSE
  /\ worker = "none" /\ status_task = "none" /\ job = NoJob
  /\ clearing = "none" /\ cuts_deferred = 0 /\ threads = 0 /\ swept = FALSE

Init == InitBase /\ InitTrace /\ InitFontUnused /\ InitCogUnused

\* UnicodeCharacterPrinting.__init__ with SLRUCache.__init__: the code range
\* ends at last, the total capacity is the size of the range.
Construct(last, prob) ==
  LET total == last - char_first + 1
  IN /\ pc = "new"
     /\ IF init_error(total, prob) # "none"
        THEN /\ pc' = "config_error"
             /\ error' = init_error(total, prob)
             /\ UNCHANGED <<configVars, cacheVars>>
        ELSE /\ pc' = "idle"
             /\ char_last' = last
             /\ total_capacity' = total
             /\ prob_capacity' = prob
             /\ prot_capacity' = total - prob
             /\ probationary' = init_segments.probationary
             /\ protected' = init_segments.protected
             /\ UNCHANGED error
     /\ UNCHANGED <<otherVars, ret, twinVars, driverVars, faults>>

\* ------------------------------------------- the cache driven directly
\* cache[key], and the same lookup on the second cache once it exists
Lookup(key) ==
  LET r == getitem(self, key)
      f == getitem(fresh, key)
  IN /\ pc = "idle"
     /\ probationary' = r.c.probationary
     /\ protected' = r.c.protected
     /\ ret' = RetOf(r, key)
     /\ error' = r.err
     /\ IF fresh_active
        THEN /\ fresh_probationary' = f.c.probationary
             /\ fresh_protected' = f.c.protected
             /\ fresh_ret' = RetOf(f, key)
             /\ UNCHANGED <<fresh_active, dirty>>
        ELSE UNCHANGED twinVars
     /\ UNCHANGED <<otherVars, pc, configVars, driverVars, faults>>

\* cache.clear(), and a second cache constructed with the same capacities
CacheClear ==
  /\ pc = "idle"
  /\ probationary' = clear(self).probationary
  /\ protected' = clear(self).protected
  /\ ret' = [NoRet EXCEPT !.op = "clear"]
  /\ error' = "none"
  /\ fresh_probationary' = init_segments.probationary
  /\ fresh_protected' = init_segments.protected
  /\ fresh_ret' = [NoRet EXCEPT !.op = "clear"]
  /\ fresh_active' = TRUE
  /\ dirty' = (probationary # <<>> /\ protected # <<>>)
  /\ UNCHANGED <<otherVars, pc, configVars, driverVars, faults>>

ConstructAny ==
  \E last \in (char_first - 1)..(char_first + MaxCodes - 1),
     prob \in (-1)..MaxCodes : Construct(last, prob)

LookupAny == \E key \in Keys : Lookup(key)

NextCache == ConstructAny \/ LookupAny \/ CacheClear

SpecCache == Init /\ [][NextCache]_vars

\* ------------------------------------------------------- the text driver
\* One call of _raw as recorded in sink.  ok is FALSE when the printer
\* raised on the write.  For a define: unsent is the number of codes that
\* were pending, not yet transmitted, when the lookup missed.  For a
\* transmit: meant[j] is the block of the character codes[j] was appended
\* for, held[j] the block slot codes[j] held when it was appended, shown[j]
\* the block the slot holds as the codes are transmitted.
Event(type) ==
  [type |-> type, ok |-> TRUE, code |-> 0, block |-> NoBlock, rows |-> 0,
   codes |-> <<>>, meant |-> <<>>, held |-> <<>>, shown |-> <<>>,
   unsent |-> 0]

\* The state text() works on: the cache, its locals, the printer.
Driver(c, cs, mt, sk, dev, err) ==
  [c |-> c, codes |-> cs, meant |-> mt, sink |-> sk, device |-> dev,
   err |-> err]

\* UnicodeCharacterPrinting._raw: the call is made, the printer may raise
raw(st, ev, fail) ==
  [st EXCEPT !.sink = Append(st.sink, [ev EXCEPT !.ok = ~fail]),
             !.err = IF fail THEN "SinkError" ELSE "none"]

select_udc(st, fail) == raw(st, Event("select"), fail)

\* UnicodeCharacterPrinting._cancel_udc
cancel_udc(st, fail) == raw(st, Event("cancel"), fail)

\* UnicodeCharacterPrinting._define_udc
define_udc(st, code, bitmap, unsent, fail) ==
  IF bitmap.len > 27
  THEN [st EXCEPT !.err = "ValueError"]
  ELSE LET w == raw(st, [Event("define") EXCEPT !.code = code,
                            !.block = bitmap, !.rows = bitmap.len \div 3,
                            !.unsent = unsent], fail)
       IN IF fail THEN w ELSE [w EXCEPT !.device[code] = bitmap]

\* self._raw(codes): the pending buffer is written
transmit(st, fail) ==
  raw(st,
      [Event("transmit") EXCEPT
         !.codes = st.codes,
         !.meant = [j \in 1..Len(st.meant) |-> st.meant[j].meant],
         !.held = [j \in 1..Len(st.meant) |-> st.meant[j].held],
         !.shown = [j \in 1..Len(st.codes) |->
                      IF st.meant[j].meant.half = 0 THEN st.meant[j].meant
                      ELSE st.device[st.codes[j]]]],
      fail)

miss_keep_buffer(st, code, bitmap, unsent, fail) ==
  LET d == define_udc(st, code, bitmap, unsent, fail = "define")
  IN IF d.err # "none" THEN d
     ELSE transmit(d, fail = "transmit")

miss_transmit_then_define(st, code, bitmap, unsent, fail) ==
  LET t == transmit(st, fail = "transmit")
  IN IF t.err # "none" THEN t
     ELSE LET d == define_udc(t, code, bitmap, unsent, fail = "define")
          IN IF d.err # "none" THEN d
             ELSE [d EXCEPT !.codes = <<>>, !.meant = <<>>]

\* text(), the branch of a miss: define the slot, transmit the pending
\* codes, clear the buffer
miss(st, code, bitmap, unsent, fail) ==
  LET d == define_udc(st, code, bitmap, unsent, fail = "define")
  IN IF d.err # "none" THEN d
     ELSE LET t == transmit(d, fail = "transmit")
          IN IF t.err # "none" THEN t
             ELSE [t EXCEPT !.codes = <<>>, !.meant = <<>>]

\* text(), one cell of a character: look the key up, append its code, and
\* on a miss define the slot and transmit
cell(st, key, bitmap, fail) ==
  LET r == getitem(st.c, key)
  IN IF r.err # "none"
     THEN [st EXCEPT !.err = r.err]
     ELSE LET held == IF r.hit THEN st.device[r.value] ELSE bitmap
              a == [st EXCEPT
                      !.c = r.c,
                      !.codes = Append(st.codes, r.value),
                      !.meant = Append(st.meant,
                                       [meant |-> bitmap, held |-> held])]
          IN IF r.hit THEN a
             ELSE miss(a, r.value, bitmap, Len(st.codes), fail)

text_char_same_block(st, char, fail1, fail2) ==
  IF category(char) = "Cc"
  THEN [st EXCEPT
          !.codes = Append(st.codes, ord(char)),
          !.meant = Append(st.meant, [meant |-> Block(char, 0, 0),
                                      held |-> Block(char, 0, 0)])]
  ELSE LET bitmap == font_get(char)
           one == cell(st, char, bitmap[1], fail1)
       IN IF one.err = "none" /\ Len(bitmap) = 2
          THEN cell(one, second_key(char), bitmap[1], fail2)
          ELSE one

text_char_no_control(st, char, fail1, fail2) ==
  LET bitmap == font_get(char)
      one == cell(st, char, bitmap[1], fail1)
  IN IF one.err = "none" /\ Len(bitmap) = 2
     THEN cell(one, second_key(char), bitmap[2], fail2)
     ELSE one

\* text(), one pass of the loop body
text_char(st, char, fail1, fail2) ==
  IF category(char) = "Cc"
  THEN [st EXCEPT
          !.codes = Append(st.codes, ord(char)),
          !.meant = Append(st.meant, [meant |-> Block(char, 0, 0),
                                      held |-> Block(char, 0, 0)])]
  ELSE LET bitmap == font_get(char)
           one == cell(st, char, bitmap[1], fail1)
       IN IF one.err = "none" /\ Len(bitmap) = 2
          THEN cell(one, second_key(char), bitmap[2], fail2)
          ELSE one

\* text() up to the loop: printer.set(font='b'), _select_udc(), codes = []
TextBegin(fail) ==
  /\ pc = "idle"
  /\ fail # "none" => faults < MaxFaults
  /\ \E st \in {select_udc(Driver(self, <<>>, <<>>, <<>>, device, "none"),
                           fail = "select")} :
       /\ faults' = IF fail # "none" THEN faults + 1 ELSE faults
       /\ txt' = <<>> /\ codes' = <<>> /\ meant' = <<>>
       /\ IF fail = "set"
          THEN /\ pc' = "error" /\ error' = "SinkError" /\ sink' = <<>>
          ELSE /\ sink' = st.sink
               /\ error' = st.err
               /\ pc' = IF st.err = "none" THEN "text" ELSE "error"
  /\ UNCHANGED <<otherVars, configVars, cacheVars, ret, twinVars, device>>

\* text(): the loop body for the next character of the argument; an
\* exception leaves text() and its locals
TextChar(char, fail1, fail2) ==
  /\ pc = "text" /\ Len(txt) < MaxLen
  /\ (fail1 # "none" \/ fail2 # "none") => faults < MaxFaults
  /\ \E st \in {text_char(Driver(self, codes, meant, sink, device, "none"),
                          char, fail1, fail2)} :
       /\ faults' = IF st.err = "SinkError" THEN faults + 1 ELSE faults
       /\ txt' = Append(txt, char)
       /\ probationary' = st.c.probationary
       /\ protected' = st.c.protected
       /\ sink' = st.sink
       /\ device' = st.device
       /\ error' = st.err
       /\ IF st.err = "none"
          THEN /\ pc' = "text"
               /\ codes' = st.codes /\ meant' = st.meant
          ELSE /\ pc' = "error"
               /\ codes' = <<>> /\ meant' = <<>>
  /\ UNCHANGED <<otherVars, configVars, ret, twinVars>>

\* text() after the loop, the argument being exhausted: transmit what is
\* pending, _cancel_udc()
TextEnd(fail) ==
  /\ pc = "text"
  /\ fail # "none" => faults < MaxFaults
  /\ \E t \in {IF codes # <<>>
               THEN transmit(Driver(self, codes, meant, sink, device, "none"),
                             fail = "transmit")
               ELSE Driver(self, codes, meant, sink, device, "none")} :
       \E e \in {IF t.err = "none" THEN cancel_udc(t, fail = "cancel")
                 ELSE t} :
          /\ faults' = IF e.err = "SinkError" THEN faults + 1 ELSE faults
          /\ sink' = e.sink
          /\ error' = e.err
          /\ pc' = IF e.err = "none" THEN "done" ELSE "error"
  /\ codes' = <<>> /\ meant' = <<>>
  /\ UNCHANGED <<otherVars, configVars, cacheVars, ret, twinVars, txt, device>>

\* text() has returned or raised: the caller goes on
TextReturn ==
  /\ pc \in {"done", "error"}
  /\ pc' = "idle"
  /\ txt' = <<>> /\ sink' = <<>> /\ error' = "none"
  /\ UNCHANGED <<otherVars, configVars, cacheVars, ret, twinVars, codes, meant, device,
                  faults>>

\* clear() between two calls of text()
Clear ==
  /\ pc = "idle"
  /\ probationary' = clear(self).probationary
  /\ protected' = clear(self).protected
  /\ UNCHANGED <<otherVars, pc, configVars, ret, twinVars, driverVars, error, faults>>

\* The printer accepts every write.
TextBeginOk == TextBegin("none")

TextCharOk == \E char \in Chars : TextChar(char, "none", "none")

TextEndOk == TextEnd("none")

Next ==
  \/ ConstructAny
  \/ TextBeginOk
  \/ TextCharOk
  \/ TextEndOk
  \/ TextReturn
  \/ Clear

Spec == Init /\ [][Next]_vars

\* The printer raises on a write: printer.set or the mode-select, a define
\* or transmit of the loop, the last transmit or the mode-cancel.
TextBeginFault == \E fail \in {"set", "select"} : TextBegin(fail)

TextCharFault ==
  \E char \in Chars,
     fail1 \in {"none", "define", "transmit"},
     fail2 \in {"none", "define", "transmit"} :
       /\ fail1 # "none" \/ fail2 # "none"
       /\ TextChar(char, fail1, fail2)

TextEndFault == \E fail \in {"transmit", "cancel"} : TextEnd(fail)

NextFault == Next \/ TextBeginFault \/ TextCharFault \/ TextEndFault

SpecFault == Init /\ [][NextFault]_vars

\* ------------------------------------------------ claims about the cache
device_char_last == 126

in_cache(c, key) == od_contains(c.probationary, key) \/ od_contains(c.protected, key)

value_of(c, key) ==
  IF od_contains(c.protected, key) THEN od_get(c.protected, key)
  ELSE od_get(c.probationary, key)

\* C1: in a cache constructed with 0 < probationary capacity < total
\* capacity, after any sequence of lookups and clears the probationary
\* segment holds at most prob_capacity entries and the protected segment at
\* most total_capacity - prob_capacity.
C1_CapacityBounds ==
  (pc = "idle" /\ ValidConfig) =>
     /\ Len(probationary) <= prob_capacity
     /\ Len(protected) <= total_capacity - prob_capacity

C1_Witness ==
  /\ pc = "idle" /\ ValidConfig
  /\ ret.op = "lookup" /\ ret.demoted # ""
  /\ Len(probationary) = prob_capacity
  /\ Len(protected) = total_capacity - prob_capacity

\* C2: no key is in both segments (nor twice in one), the codes of all
\* entries of both segments are pairwise distinct, and every code lies in
\* the code range 0x20..0x7E.
C2_DistinctKeysAndCodes ==
  /\ od_keys(probationary) \cap od_keys(protected) = {}
  /\ Cardinality(od_keys(probationary)) = Len(probationary)
  /\ Cardinality(od_keys(protected)) = Len(protected)
  /\ Cardinality(used_codes(self)) = Len(probationary) + Len(protected)
  /\ \A code \in used_codes(self) :
        /\ char_first <= code /\ code <= char_last
        /\ code <= device_char_last

C2_Witness ==
  /\ dirty
  /\ ret.op = "lookup" /\ ret.allocated /\ ret.err = "none"
  /\ Len(probationary) + Len(protected) = total_capacity
  /\ protected # <<>>

\* C3: a lookup that returns reports a hit exactly when the key was in one
\* of the segments before the call; after a hit the key is the most recently
\* used entry of the protected segment and the value returned is the value
\* the key had; after a miss the key is the most recently used entry of the
\* probationary segment.
C3_LookupResult ==
  [][\A key \in Keys :
       (Lookup(key) /\ ret'.err = "none") =>
          /\ ret'.hit = in_cache(self, key)
          /\ ret'.hit =>
               /\ protected' # <<>> /\ od_mru(protected') = key
               /\ ret'.value = value_of(self, key)
          /\ ~ret'.hit =>
               /\ probationary' # <<>> /\ od_mru(probationary') = key]_vars

C3_Witness ==
  /\ ret.op = "lookup" /\ ret.hit /\ ret.err = "none"
  /\ Len(protected) >= 2 /\ od_mru(protected) = ret.key
  /\ probationary # <<>>

\* C8: in a cache with valid capacities, a miss while the probationary
\* segment is full removes exactly the least recently used probationary
\* entry, gives its value to the new key without invoking the value factory
\* and leaves the protected segment unchanged; the value factory is invoked
\* only on a miss while the probationary segment is not full.
C8_EvictionRecycles ==
  [][\A key \in Keys :
       (Lookup(key) /\ ValidConfig) =>
          /\ (~in_cache(self, key) /\ Len(probationary) = prob_capacity) =>
               /\ ret'.err = "none" /\ ~ret'.hit /\ ~ret'.allocated
               /\ ret'.value = Head(probationary).v
               /\ probationary' =
                    Append(Tail(probationary),
                           [k |-> key, v |-> Head(probationary).v])
               /\ protected' = protected
          /\ ret'.allocated =>
               /\ ~in_cache(self, key)
               /\ Len(probationary) < prob_capacity]_vars

C8_Witness ==
  /\ ValidConfig /\ ret.op = "lookup" /\ ret.err = "none"
  /\ ~ret.hit /\ ~ret.allocated /\ ret.evicted # ""
  /\ Len(probationary) >= 2 /\ protected # <<>>

\* C9: a key that is in the cache before and after a step keeps its value:
\* promotion and demotion change the segment of a key, never its code.
C9_ValuesKept ==
  [][\A key \in Keys :
       (in_cache(self, key) /\ in_cache(self', key)) =>
          value_of(self', key) = value_of(self, key)]_vars

C9_Witness ==
  /\ ret.op = "lookup" /\ ret.hit /\ ret.demoted # ""
  /\ od_contains(probationary, ret.demoted)
  /\ Len(probationary) >= 2

\* C10: after clear() both segments are empty, and from then on the cleared
\* cache returns the same (value, hit) results and has the same segment
\* contents as a cache constructed with the same capacities at that moment.
C10_ClearIsFresh ==
  /\ ret.op = "clear" => (probationary = <<>> /\ protected = <<>>)
  /\ fresh_active =>
       /\ probationary = fresh_probationary
       /\ protected = fresh_protected
       /\ ret = fresh_ret

C10_Witness ==
  /\ fresh_active /\ dirty
  /\ ret.op = "lookup" /\ ret.hit /\ ret.demoted # ""
  /\ probationary # <<>>

\* ----------------------------------------------- claims about text()
seq_range(q) == {q[j] : j \in 1..Len(q)}

types_of(log) == {log[i].type : i \in 1..Len(log)}

\* C4: every device code written by a code-transmit is, as it is
\* transmitted, still defined on the device as the glyph of the character
\* it was appended for: a slot that held the character's glyph when its code
\* was appended has not been redefined to another glyph before the transmit
\* (stated for runs in which the printer never raised).
C4_NoStaleCode ==
  \A i \in 1..Len(sink) :
     (faults = 0 /\ sink[i].type = "transmit" /\ sink[i].ok) =>
        \A j \in 1..Len(sink[i].codes) :
           sink[i].held[j] = sink[i].meant[j] =>
              sink[i].shown[j] = sink[i].meant[j]

\* C5: on every miss in text() the pending buffer has been written to the
\* sink before the define-slot command of the miss is written: no code
\* buffered before the miss is still unsent when the slot is defined
\* (stated for runs in which the printer never raised).
C5_FlushBeforeDefine ==
  \A i \in 1..Len(sink) :
     (faults = 0 /\ sink[i].type = "define") => sink[i].unsent = 0

\* C6: a call of text() that has emitted the mode-select has also emitted
\* the mode-cancel when it returns or raises.
C6_CancelAlways ==
  (/\ ValidConfig
   /\ pc \in {"done", "error"}
   /\ \E i \in 1..Len(sink) : sink[i].type = "select" /\ sink[i].ok)
  => \E i \in 1..Len(sink) : sink[i].type = "cancel"

TraceKeys == {"A", "B", "C", "D", "E"}

\* cache[key], the key and the (value, cache_hit) pair it returned recorded
Access(key) ==
  /\ pc = "idle"
  /\ Len(trace) < MaxTrace
  /\ \E r \in {getitem(self, key)} :
       /\ probationary' = r.c.probationary
       /\ protected' = r.c.protected
       /\ ret' = RetOf(r, key)
       /\ error' = r.err
       /\ trace' = Append(trace, key)
       /\ results' = Append(results, [value |-> r.value, hit |-> r.hit])
  /\ UNCHANGED <<pc, configVars, twinVars, driverVars, faults, fontVars,
                 cogVars>>

\* A cache of total capacity 4 and probationary capacity 2.
ConstructTrace == Construct(char_first + 4 - 1, 2)

AccessAny == \E key \in TraceKeys : Access(key)

NextTrace == ConstructTrace \/ AccessAny

SpecTrace == Init /\ [][NextTrace]_vars

hits_of(rs) == [i \in 1..Len(rs) |-> rs[i].hit]

key_order(od) == [i \in 1..Len(od) |-> od[i].k]

\* C11: on a cache of total capacity 4 and probationary capacity 2 the
\* accesses A, B, A, C, D, E give miss, miss, hit, miss, miss, miss: the
\* hit promotes A to the protected segment; after the access of C the
\* probationary segment holds B and C in that order and C has the lowest
\* code held by no other entry; the access of D evicts B and D receives
\* B's code; the access of E evicts C and E receives C's code.
C11_TraceOutcome ==
  \A n \in 1..6 :
    (total_capacity = 4 /\ prob_capacity = 2
       /\ trace = SubSeq(<<"A", "B", "A", "C", "D", "E">>, 1, n)) =>
      /\ hits_of(results) = [i \in 1..n |-> i = 3]
      /\ error = "none"
      /\ n >= 3 => key_order(protected) = <<"A">>
      /\ n = 4 =>
           /\ key_order(probationary) = <<"B", "C">>
           /\ results[4].value \in char_first..char_last
           /\ \A code \in char_first..(results[4].value - 1) :
                code \in {results[1].value, results[2].value}
           /\ results[4].value \notin {results[1].value, results[2].value}
      /\ n >= 5 =>
           /\ ~in_cache(self, "B")
           /\ results[5].value = results[2].value
      /\ n = 5 => key_order(probationary) = <<"C", "D">>
      /\ n = 6 =>
           /\ ~in_cache(self, "C")
           /\ results[6].value = results[4].value
           /\ key_order(probationary) = <<"D", "E">>

C11_Witness ==
  /\ total_capacity = 4 /\ prob_capacity = 2
  /\ trace = <<"A", "B", "A", "C", "D", "E">>
  /\ hits_of(results) = <<FALSE, FALSE, TRUE, FALSE, FALSE, FALSE>>
  /\ value_of(self, "E") = results[4].value

\* C12: construction rejects every invalid configuration: a cache that was
\* constructed has a positive probationary capacity and a positive
\* protected capacity, and no lookup on it ends in an error of the cache
\* itself.
C12_ConstructionRejects ==
  pc = "idle" =>
     /\ prob_capacity > 0
     /\ prot_capacity > 0
     /\ error \notin {"KeyError", "RuntimeError"}

\* C13: when text() has left its loop because the define of a slot failed,
\* the cache holds no entry for the key whose lookup missed: the character
\* just read, or the key of its second cell when the failed define was that
\* of the second block.
C13_NoEntryAfterFailedDefine ==
  (/\ pc = "error" /\ ValidConfig
   /\ txt # <<>> /\ sink # <<>>
   /\ sink[Len(sink)].type = "define"
   /\ ~sink[Len(sink)].ok) =>
     ~in_cache(self, IF sink[Len(sink)].block.half = 2
                     THEN second_key(txt[Len(txt)])
                     ELSE txt[Len(txt)])

\* C14: in a cache whose total capacity is the size of the code range and
\* whose probationary capacity is positive and below the total, no lookup
\* ends in the allocator's RuntimeError, and whenever the probationary
\* segment is not full (a miss would call the allocator) some code of the
\* range is held by neither segment.
C14_AllocatorNeverFails ==
  (/\ pc = "idle" /\ ValidConfig
   /\ total_capacity = char_last - char_first + 1) =>
     /\ error # "RuntimeError"
     /\ ret.err # "RuntimeError"
     /\ Len(probationary) < prob_capacity =>
          /\ next_ascii_code(self).err = "none"
          /\ \E code \in char_first..char_last : code \notin used_codes(self)

C14_Witness ==
  /\ pc = "idle" /\ ValidConfig
  /\ total_capacity = char_last - char_first + 1
  /\ ret.op = "lookup" /\ ret.allocated /\ ret.err = "none"
  /\ used_codes(self) = char_first..char_last

\* -------------------------------------------------- the glyph transcoder
\* src[y] & (0x80 >> x), the mask being a power of two
bit_and(byte, mask) == ((byte \div mask) % 2) * mask

\* byte | (1 << bit_index)
bit_or(byte, bit_index) ==
  IF (byte \div (2 ^ bit_index)) % 2 = 1 THEN byte ELSE byte + 2 ^ bit_index

\* src[0::2] and src[1::2]
even_bytes(bytes) == [i \in 1..((Len(bytes) + 1) \div 2) |-> bytes[2 * i - 1]]

odd_bytes(bytes) == [i \in 1..(Len(bytes) \div 2) |-> bytes[2 * i]]

\* bytearray(24)
zero_block == [i \in 1..24 |-> 0]

map_bit_lsb_first(dst, y, x) ==
  [dst EXCEPT ![x * 3 + y \div 8 + 1] = bit_or(@, y % 8)]

\* The body of the loop for a set bit: the bit of row y, column x goes to
\* row x, column y of the destination.
map_bit(dst, y, x) ==
  LET new_x == y
      new_y == x
      byte_index == new_y * 3 + new_x \div 8
      bit_index == 7 - (new_x % 8)
  IN [dst EXCEPT ![byte_index + 1] = bit_or(@, bit_index)]

\* for x in range(8), from column x on, in row y
RECURSIVE map_row(_, _, _, _)
map_row(bytes, dst, y, x) ==
  IF x = 8 THEN dst
  ELSE map_row(bytes,
               IF bit_and(bytes[y + 1], 128 \div (2 ^ x)) # 0
               THEN map_bit(dst, y, x) ELSE dst,
               y, x + 1)

\* for y in range(16), from row y on (the set binds the array as it is
\* after row y)
RECURSIVE map_rows(_, _, _)
map_rows(bytes, dst, y) ==
  IF y = 16 THEN dst
  ELSE CHOOSE r \in {map_rows(bytes, d, y + 1) :
                        d \in {map_row(bytes, dst, y, 0)}} : TRUE

\* unifont_to_fontb on the 16 bytes of one column of a 16x16 bitmap
fontb_column(bytes) == map_rows(bytes, zero_block, 0)

unifont_to_fontb_pad_second(bytes) ==
  IF Len(bytes) \notin {16, 32}
  THEN [err |-> "ValueError", blocks |-> <<>>]
  ELSE IF Len(bytes) = 32
  THEN [err |-> "none",
        blocks |-> <<fontb_column(even_bytes(bytes)),
                     <<0, 0, 0>> \o fontb_column(odd_bytes(bytes))>>]
  ELSE [err |-> "none", blocks |-> <<fontb_column(bytes)>>]

unifont_to_fontb_at_least(bytes) ==
  IF Len(bytes) < 16
  THEN [err |-> "ValueError", blocks |-> <<>>]
  ELSE IF Len(bytes) = 32
  THEN [err |-> "none",
        blocks |-> <<<<0, 0, 0>> \o fontb_column(even_bytes(bytes)),
                     fontb_column(odd_bytes(bytes))>>]
  ELSE [err |-> "none", blocks |-> <<fontb_column(bytes)>>]

\* unifont_to_fontb
unifont_to_fontb(bytes) ==
  IF Len(bytes) \notin {16, 32}
  THEN [err |-> "ValueError", blocks |-> <<>>]
  ELSE IF Len(bytes) = 32
  THEN LET dst_2nd == fontb_column(odd_bytes(bytes))
           dst == fontb_column(even_bytes(bytes))
       IN [err |-> "none", blocks |-> <<<<0, 0, 0>> \o dst, dst_2nd>>]
  ELSE [err |-> "none", blocks |-> <<fontb_column(bytes)>>]

\* Bytes of the bitmaps handed to the transcoder: one row of the bitmap has
\* a byte of RowBytes, every other row the same byte of FillBytes.
RowBytes == {0, 1, 2, 4, 8, 16, 32, 64, 128, 255}

FillBytes == {0, 165, 255}

Bitmaps ==
  {<<>>} \cup
  UNION {{[i \in 1..len |-> IF i = row THEN v ELSE w] :
            row \in 1..len, v \in RowBytes, w \in FillBytes} :
         len \in 1..MaxSrcLen}

InitFont ==
  /\ InitBase /\ InitTrace /\ InitCogUnused
  /\ src \in Bitmaps
  /\ out = [err |-> "pending", blocks |-> <<>>]

\* unifont_to_fontb(src)
Transcode ==
  /\ out.err = "pending"
  /\ out' = unifont_to_fontb(src)
  /\ UNCHANGED <<pc, configVars, cacheVars, ret, twinVars, driverVars, error,
                 faults, traceVars, cogVars, src>>

NextFont == Transcode

SpecFont == InitFont /\ [][NextFont]_vars

\* ------------------------------------------ claims about the transcoder
\* The bit of mask 0x80 >> x in the byte of index idx (from 0) of a bitmap.
src_bit(bytes, idx, x) == (bytes[idx + 1] \div (2 ^ (7 - x))) % 2 = 1

\* The bit of destination row x, column y of a block whose rows start after
\* the first offset bytes.
dst_bit(block, offset, x, y) ==
  (block[offset + 3 * x + y \div 8 + 1] \div (2 ^ (7 - (y % 8)))) % 2 = 1

is_bytes(block) == \A i \in 1..Len(block) : block[i] \in 0..255

\* C15 as stated: a 32-byte bitmap gives two blocks, the first the 24-byte
\* transcoding of the even-indexed bytes, the second 27 bytes: three zero
\* bytes, then the transcoding of the odd-indexed bytes.
C15_SecondBlockPadded ==
  (out.err # "pending" /\ Len(src) = 32) =>
     /\ out.err = "none"
     /\ Len(out.blocks) = 2
     /\ Len(out.blocks[1]) = 24
     /\ Len(out.blocks[2]) = 27
     /\ \A i \in 1..3 : out.blocks[2][i] = 0
     /\ \A x \in 0..7, y \in 0..15 :
          /\ dst_bit(out.blocks[1], 0, x, y) <=> src_bit(src, 2 * y, x)
          /\ dst_bit(out.blocks[2], 3, x, y) <=> src_bit(src, 2 * y + 1, x)

\* C15, amended: a 32-byte bitmap gives two blocks, the first 27 bytes:
\* three zero bytes, then the 24-byte transcoding of the even-indexed
\* bytes; the second the 24-byte transcoding of the odd-indexed bytes.  The
\* first block is 3 bytes longer than the second and the zero row is
\* prepended to the first block only.
C15_FirstBlockPadded ==
  (out.err # "pending" /\ Len(src) = 32) =>
     /\ out.err = "none"
     /\ Len(out.blocks) = 2
     /\ Len(out.blocks[1]) = 27
     /\ Len(out.blocks[2]) = 24
     /\ Len(out.blocks[1]) = Len(out.blocks[2]) + 3
     /\ is_bytes(out.blocks[1]) /\ is_bytes(out.blocks[2])
     /\ \A i \in 1..3 : out.blocks[1][i] = 0
     /\ \A x \in 0..7, y \in 0..23 :
          /\ dst_bit(out.blocks[1], 3, x, y) <=>
               (y < 16 /\ src_bit(src, 2 * y, x))
          /\ dst_bit(out.blocks[2], 0, x, y) <=>
               (y < 16 /\ src_bit(src, 2 * y + 1, x))

C15_Witness ==
  /\ Len(src) = 32 /\ out.err = "none"
  /\ src[1] = 128 /\ src[2] = 255
  /\ out.blocks[1][4] >= 128
  /\ out.blocks[2][1] >= 128
  /\ Len(out.blocks[1]) = 27

\* C16: the transcoder accepts the lengths 16 and 32 and no other: a bitmap
\* of any other length, 0 and 17 among them, gives ValueError and no block;
\* a bitmap of 16 or 32 bytes never fails.
C16_LengthsAccepted ==
  out.err # "pending" =>
     /\ out.err \in {"none", "ValueError"}
     /\ out.err = "none" <=> Len(src) \in {16, 32}
     /\ out.err = "ValueError" => out.blocks = <<>>
     /\ out.err = "none" => out.blocks # <<>>

C16_Witness ==
  /\ Len(src) = 17
  /\ out.err = "ValueError" /\ out.blocks = <<>>

\* C17: a 16-byte bitmap gives one block of 24 bytes in which the bit of
\* destination row x (0..7), column y, byte 3*x + y div 8, bit 7 - y mod 8,
\* is set exactly when y is below 16 and the bit of mask 0x80 >> x of source
\* byte y is set; the all-zero bitmap gives 24 zero bytes.
C17_Rotation ==
  (out.err # "pending" /\ Len(src) = 16) =>
     /\ out.err = "none"
     /\ Len(out.blocks) = 1
     /\ Len(out.blocks[1]) = 24
     /\ is_bytes(out.blocks[1])
     /\ \A x \in 0..7, y \in 0..23 :
          dst_bit(out.blocks[1], 0, x, y) <=> (y < 16 /\ src_bit(src, y, x))
     /\ (\A i \in 1..16 : src[i] = 0) =>
          \A i \in 1..24 : out.blocks[1][i] = 0

C17_Witness ==
  /\ Len(src) = 16 /\ out.err = "none"
  /\ src[16] = 1 /\ src[1] = 165
  /\ out.blocks[1][23] % 2 = 1
  /\ out.blocks[1][1] >= 128

\* --------------------------------------- claims about control characters
\* C18: the pass of text()'s loop for a control character appends the
\* character's ordinal to the pending buffer, leaves both segments of the
\* cache as they are (entries, order, values), and makes no write: no
\* define of a slot and no transmit of the buffer.
C18_ControlCharSkipsCache ==
  [][(/\ pc = "text"
      /\ Len(txt') = Len(txt) + 1
      /\ category(txt'[Len(txt')]) = "Cc") =>
        /\ pc' = "text"
        /\ codes' = Append(codes, ord(txt'[Len(txt')]))
        /\ probationary' = probationary
        /\ protected' = protected
        /\ sink' = sink
        /\ device' = device]_vars

C18_Witness ==
  /\ pc = "text"
  /\ Len(txt) >= 2 /\ category(txt[Len(txt)]) = "Cc"
  /\ Len(codes) >= 2 /\ codes[Len(codes)] = ord(txt[Len(txt)])
  /\ probationary # <<>>
  /\ types_of(sink) = {"select"}

\* --------------------------------------------------------- the Print cog
\* The cog's coroutines run on one event loop: a step of a coroutine runs
\* from one await to the next and no other coroutine runs in between.  The
\* functions handed to asyncio.to_thread run in threads of their own, at
\* the same time as the event loop.
cogFrame == <<configVars, ret, twinVars, driverVars, faults, traceVars, fontVars>>

\* Characters of the texts the print jobs print.
CogKeys == {"a", "z"}

\* Print.__init__: the cache as UnicodeCharacterPrinting(self.printer)
\* constructs it (the probationary capacity scaled down with the code
\* range), an empty queue, the event not set, both tasks started.
InitCog ==
  /\ InitTrace /\ InitFontUnused
  /\ pc = "idle"
  /\ char_last = char_first + MaxCodes - 1
  /\ total_capacity = MaxCodes /\ prob_capacity = 1
  /\ prot_capacity = MaxCodes - 1
  /\ probationary = <<>> /\ protected = <<>>
  /\ ret = NoRet
  /\ fresh_probationary = <<>> /\ fresh_protected = <<>>
  /\ fresh_ret = NoRet /\ fresh_active = FALSE /\ dirty = FALSE
  /\ txt = <<>> /\ codes = <<>> /\ meant = <<>> /\ sink = <<>>
  /\ device = [code \in char_first..(char_first + MaxCodes - 1) |-> NoBlock]
  /\ error = "none"
  /\ faults = 0
  /\ queue = <<>> /\ printer_online_event = FALSE /\ receipt_ongoing = FALSE
  /\ worker = "get" /\ status_task = "sleep" /\ job = NoJob
  /\ clearing = "none" /\ cuts_deferred = 0 /\ threads = 0 /\ swept = FALSE

\* check_printer_status after is_online: what is done to the event
status_update(printer_online, is_set) ==
  IF printer_online # is_set
  THEN IF printer_online THEN "set" ELSE "clear"
  ELSE "keep"

\* print_queue_worker: job = await self.queue.get() with a job in the
\* queue, then check_printer_status up to await asyncio.to_thread(is_online)
WorkerGet ==
  /\ clearing = "none"
  /\ worker = "get" /\ queue # <<>>
  /\ job' = [kind |-> Head(queue), at |-> "held"]
  /\ queue' = Tail(queue)
  /\ worker' = "check"
  /\ UNCHANGED <<pc, cacheVars, error, cogFrame, printer_online_event,
                 receipt_ongoing, status_task, clearing, cuts_deferred,
                 threads, swept>>

\* print_queue_worker: is_online has returned (or raised: offline); the
\* rest of check_printer_status, then printer_online_event.wait() and, the
\* event being set, asyncio.to_thread(job)
WorkerChecked(printer_online) ==
  /\ clearing = "none"
  /\ worker = "check"
  /\ \E u \in {status_update(printer_online, printer_online_event)} :
       IF u = "clear"
       THEN /\ printer_online_event' = FALSE
            /\ clearing' = "worker"
            /\ UNCHANGED <<worker, job, threads>>
       ELSE /\ printer_online_event' = (u = "set" \/ printer_online_event)
            /\ IF printer_online_event'
               THEN /\ worker' = "job"
                    /\ job' = [job EXCEPT !.at = "running"]
                    /\ threads' = threads + 1
               ELSE /\ worker' = "wait"
                    /\ UNCHANGED <<job, threads>>
            /\ UNCHANGED clearing
  /\ UNCHANGED <<pc, cacheVars, error, cogFrame, queue, receipt_ongoing,
                 status_task, cuts_deferred, swept>>

\* print_queue_worker: wait() has returned, asyncio.to_thread(job)
WorkerWake ==
  /\ clearing = "none"
  /\ worker = "woken"
  /\ worker' = "job"
  /\ job' = [job EXCEPT !.at = "running"]
  /\ threads' = threads + 1
  /\ UNCHANGED <<pc, cacheVars, error, cogFrame, queue, printer_online_event,
                 receipt_ongoing, status_task, clearing, cuts_deferred, swept>>

\* task_printer_status, every 30 seconds: check_printer_status up to
\* await asyncio.to_thread(is_online)
StatusStart ==
  /\ clearing = "none"
  /\ status_task = "sleep"
  /\ status_task' = "check"
  /\ UNCHANGED <<pc, cacheVars, error, cogFrame, queue, printer_online_event,
                 receipt_ongoing, worker, job, clearing, cuts_deferred,
                 threads, swept>>

\* task_printer_status: is_online has returned; the rest of
\* check_printer_status.  A worker that set() has woken is ahead of this
\* step in the loop's queue of ready callbacks.
StatusChecked(printer_online) ==
  /\ clearing = "none"
  /\ status_task = "check"
  /\ worker # "woken"
  /\ \E u \in {status_update(printer_online, printer_online_event)} :
       IF u = "clear"
       THEN /\ printer_online_event' = FALSE
            /\ clearing' = "status"
            /\ UNCHANGED <<worker, status_task>>
       ELSE /\ printer_online_event' = (u = "set" \/ printer_online_event)
            /\ worker' = IF u = "set" /\ worker = "wait" THEN "woken"
                         ELSE worker
            /\ status_task' = "sleep"
            /\ UNCHANGED clearing
  /\ UNCHANGED <<pc, cacheVars, error, cogFrame, queue, receipt_ongoing, job,
                 cuts_deferred, threads, swept>>

\* print_queue_worker: the job's thread has returned: queue.task_done()
WorkerJobDone ==
  /\ clearing = "none"
  /\ worker = "job" /\ job.at = "returned"
  /\ worker' = "get"
  /\ job' = NoJob
  /\ UNCHANGED <<pc, cacheVars, error, cogFrame, queue, printer_online_event,
                 receipt_ongoing, status_task, clearing, cuts_deferred,
                 threads, swept>>

\* print_queue_worker: the job's thread has raised, the exception leaves
\* the coroutine and task_error handles it.  Whether the task then runs the
\* coroutine again is the library's decision.
WorkerJobFailed(again) ==
  /\ clearing = "none"
  /\ worker = "job" /\ job.at = "raised"
  /\ IF error = "DeviceNotFoundError" /\ printer_online_event
     THEN /\ printer_online_event' = FALSE
          /\ clearing' = "error"
          /\ UNCHANGED <<worker, job, error>>
     ELSE /\ worker' = IF again THEN "get" ELSE "stopped"
          /\ job' = NoJob
          /\ error' = "none"
          /\ UNCHANGED <<printer_online_event, clearing>>
  /\ UNCHANGED <<pc, cacheVars, cogFrame, queue, receipt_ongoing, status_task,
                 cuts_deferred, threads, swept>>

\* self.unicode_char_print.clear(), the statement after
\* printer_online_event.clear(), and the coroutine up to its next await
ClearStep(again) ==
  /\ clearing # "none"
  /\ probationary' = clear(self).probationary
  /\ protected' = clear(self).protected
  /\ swept' = (swept \/ self # init_segments)
  /\ clearing' = "none"
  /\ worker' = IF clearing = "worker" THEN "wait"
               ELSE IF clearing = "error"
                    THEN (IF again THEN "get" ELSE "stopped")
                    ELSE worker
  /\ status_task' = IF clearing = "status" THEN "sleep" ELSE status_task
  /\ job' = IF clearing = "error" THEN NoJob ELSE job
  /\ error' = IF clearing = "error" THEN "none" ELSE error
  /\ UNCHANGED <<pc, cogFrame, queue, printer_online_event, receipt_ongoing,
                 cuts_deferred, threads>>

\* print_job, in its thread: a call of unicode_char_print.text begins
JobTextBegin ==
  /\ job = [kind |-> "print", at |-> "running"]
  /\ pc = "idle"
  /\ pc' = "text"
  /\ UNCHANGED <<cacheVars, error, cogFrame, cogVars>>

\* print_job, in its thread: text() looks a character up
JobLookup(key) ==
  /\ job = [kind |-> "print", at |-> "running"]
  /\ pc = "text"
  /\ \E r \in {getitem(self, key)} :
       /\ probationary' = r.c.probationary
       /\ protected' = r.c.protected
  /\ UNCHANGED <<pc, error, cogFrame, cogVars>>

\* print_job, in its thread: the call of text() returns
JobTextEnd ==
  /\ job = [kind |-> "print", at |-> "running"]
  /\ pc = "text"
  /\ pc' = "idle"
  /\ UNCHANGED <<cacheVars, error, cogFrame, cogVars>>

\* print_job or cut_job returns, its thread ends
JobReturn ==
  /\ job.at = "running"
  /\ pc = "idle"
  /\ job' = [job EXCEPT !.at = "returned"]
  /\ threads' = threads - 1
  /\ UNCHANGED <<pc, cacheVars, error, cogFrame, queue, printer_online_event,
                 receipt_ongoing, worker, status_task, clearing,
                 cuts_deferred, swept>>

\* print_job or cut_job raises on a call of the printer, its thread ends
JobRaise(err) ==
  /\ job.at = "running"
  /\ job' = [job EXCEPT !.at = "raised"]
  /\ error' = err
  /\ pc' = "idle"
  /\ threads' = threads - 1
  /\ UNCHANGED <<cacheVars, cogFrame, queue, printer_online_event,
                 receipt_ongoing, worker, status_task, clearing,
                 cuts_deferred, swept>>

\* The print command from queue.put_nowait(print_job) on, the queue not
\* being full (a full queue leaves the cog as it is).
PrintCommand ==
  /\ clearing = "none"
  /\ worker # "none"
  /\ Len(queue) < MaxQueue
  /\ queue' = Append(queue, "print")
  /\ receipt_ongoing' = TRUE
  /\ UNCHANGED <<pc, cacheVars, error, cogFrame, printer_online_event, worker,
                 status_task, job, clearing, cuts_deferred, threads, swept>>

\* The cut command up to await interaction.response.defer
CutCommand ==
  /\ clearing = "none"
  /\ receipt_ongoing
  /\ cuts_deferred < MaxCuts
  /\ cuts_deferred' = cuts_deferred + 1
  /\ UNCHANGED <<pc, cacheVars, error, cogFrame, queue, printer_online_event,
                 receipt_ongoing, worker, status_task, job, clearing,
                 threads, swept>>

\* The cut command after the defer: queue.put_nowait(cut_job) and, unless
\* the queue is full, receipt_ongoing = False
CutDeferred ==
  /\ clearing = "none"
  /\ cuts_deferred > 0
  /\ cuts_deferred' = cuts_deferred - 1
  /\ IF Len(queue) < MaxQueue
     THEN /\ queue' = Append(queue, "cut")
          /\ receipt_ongoing' = FALSE
     ELSE UNCHANGED <<queue, receipt_ongoing>>
  /\ UNCHANGED <<pc, cacheVars, error, cogFrame, printer_online_event, worker,
                 status_task, job, clearing, threads, swept>>

WorkerCheckedAny == \E printer_online \in BOOLEAN : WorkerChecked(printer_online)

StatusCheckedAny == \E printer_online \in BOOLEAN : StatusChecked(printer_online)

WorkerJobFailedAny == \E again \in BOOLEAN : WorkerJobFailed(again)

ClearStepAny == \E again \in BOOLEAN : ClearStep(again)

JobLookupAny == \E key \in CogKeys : JobLookup(key)

JobRaiseAny == \E err \in {"DeviceNotFoundError", "OtherError"} : JobRaise(err)

NextCog ==
  \/ WorkerGet
  \/ WorkerCheckedAny
  \/ WorkerWake
  \/ StatusStart
  \/ StatusCheckedAny
  \/ WorkerJobDone
  \/ WorkerJobFailedAny
  \/ ClearStepAny
  \/ JobTextBegin
  \/ JobLookupAny
  \/ JobTextEnd
  \/ JobReturn
  \/ JobRaiseAny
  \/ PrintCommand
  \/ CutCommand
  \/ CutDeferred

SpecCog == InitCog /\ [][NextCog]_vars

\* ------------------------------------------- claims about the Print cog
\* C19: the cog serializes the operations on the character cache: at most
\* one job thread runs at a time, and clear() (after the event was cleared
\* by a status check of either task or by the worker's error handler) is
\* never executed while a print job's call of text() is in progress.
C19_CacheSerialized ==
  [][/\ threads' <= 1
     /\ (clearing # "none" /\ clearing' = "none") => pc # "text"]_vars

\* C20: when the event goes from set to cleared, the clear of the cache is
\* the next thing the event loop does, and it empties both segments: until
\* then only the job's thread moves, no coroutine does and no job is
\* started; a job is started only with the event set and no clear
\* outstanding.
C20_OutageClearsCache ==
  [][/\ (printer_online_event /\ ~printer_online_event') =>
          clearing' # "none"
     /\ clearing # "none" =>
          \/ /\ clearing' = "none"
             /\ probationary' = <<>> /\ protected' = <<>>
             /\ ~printer_online_event'
          \/ /\ UNCHANGED <<clearing, worker, status_task, queue,
                            receipt_ongoing, cuts_deferred,
                            printer_online_event>>
             /\ job.at = "running"
     /\ (job.at # "running" /\ job'.at = "running") =>
          /\ printer_online_event'
          /\ clearing = "none" /\ clearing' = "none"]_vars

C20_Witness ==
  /\ swept
  /\ printer_online_event
  /\ worker = "job" /\ job = [kind |-> "print", at |-> "running"]
  /\ threads = 1
  /\ pc = "idle"
  /\ probationary = <<>> /\ protected = <<>>

\* ------------------------------------------ the printer's slots are lost
\* The printer is reset between two calls of text(): its slot table is
\* undefined again, and the caller clears the cache as the cog does when it
\* finds the printer down.
DeviceReset ==
  /\ pc = "idle"
  /\ device' = [code \in DOMAIN device |-> NoBlock]
  /\ probationary' = clear(self).probationary
  /\ protected' = clear(self).protected
  /\ UNCHANGED <<otherVars, pc, configVars, ret, twinVars, txt, codes, meant,
                 sink, error, faults>>

NextReset == Next \/ DeviceReset

SpecReset == Init /\ [][NextReset]_vars

\* The block text() defines the slot of a key with: the second block of the
\* character for the key of a second cell, else the first block of the
\* character, the blocks of the question mark when the font lacks it.
glyph_of(key) ==
  LET firsts == {char \in Chars : second_key(char) = key}
  IN IF firsts # {}
     THEN font_get(CHOOSE char \in firsts : TRUE)[2]
     ELSE font_get(key)[1]

\* C21: between calls of text(), none of which raised, with the cache
\* cleared at every reset of the printer: every key of either segment is
\* mapped to a code whose slot on the device was last defined with the
\* block of that key.
C21_CacheDeviceCoherent ==
  (pc \in {"idle", "done"} /\ faults = 0) =>
     \A key \in od_keys(probationary) \cup od_keys(protected) :
        /\ value_of(self, key) \in DOMAIN device
        /\ device[value_of(self, key)] = glyph_of(key)

C21_Witness ==
  /\ pc = "done" /\ faults = 0
  /\ in_cache(self, second_key("W"))
  /\ in_cache(self, "z")
  /\ ~in_cache(self, "W")
  /\ device[value_of(self, "z")] = font["?"][1]
  /\ device[value_of(self, second_key("W"))] = font["W"][2]

\* ------------------------------------------- claims about the payloads
\* The codes of all code-transmits of a log, in the order written, and for
\* each of them the block of the character it was appended for.
RECURSIVE sent_codes(_)
sent_codes(log) ==
  IF log = <<>> THEN <<>>
  ELSE (IF Head(log).type = "transmit" THEN Head(log).codes ELSE <<>>)
       \o sent_codes(Tail(log))

RECURSIVE sent_meant(_)
sent_meant(log) ==
  IF log = <<>> THEN <<>>
  ELSE (IF Head(log).type = "transmit" THEN Head(log).meant ELSE <<>>)
       \o sent_meant(Tail(log))

\* What a text asks to be printed: a control character itself, any other
\* character the one or two blocks of its glyph.
RECURSIVE cells_of(_)
cells_of(text) ==
  IF text = <<>> THEN <<>>
  ELSE (IF category(Head(text)) = "Cc" THEN <<Block(Head(text), 0, 0)>>
        ELSE font_get(Head(text)))
       \o cells_of(Tail(text))

\* C22: when a call of text() has completed without error, the payloads of
\* its code-transmits, concatenated, are in the order of the input one byte
\* per control character, its ordinal, and one device code per cell of
\* every other character (one cell or two): nothing is lost, duplicated or
\* reordered.
C22_PayloadIsInput ==
  pc = "done" =>
     /\ sent_meant(sink) = cells_of(txt)
     /\ Len(sent_codes(sink)) = Len(cells_of(txt))
     /\ \A j \in 1..Len(sent_codes(sink)) :
          IF cells_of(txt)[j].half = 0
          THEN sent_codes(sink)[j] = ord(cells_of(txt)[j].of)
          ELSE sent_codes(sink)[j] \in char_first..char_last

C22_Witness ==
  /\ pc = "done"
  /\ Len(txt) = 3 /\ txt[1] = "W" /\ txt[2] = "\n" /\ txt[3] = "W"
  /\ Len(sent_codes(sink)) = 5
  /\ Cardinality({i \in 1..Len(sink) : sink[i].type = "transmit"}) >= 3

\* ------------------------------------------------ claims about the cuts
\* C23: whatever the interleaving of print and cut commands, no two cut
\* jobs follow each other with no print job between them: neither two
\* neighbours in the queue, nor the job the worker has taken and the job
\* at the head of the queue.
C23_NoDoubleCut ==
  /\ \A i \in 1..(Len(queue) - 1) :
        ~(queue[i] = "cut" /\ queue[i + 1] = "cut")
  /\ (job.kind = "cut" /\ queue # <<>>) => Head(queue) # "cut"

====
